---- MODULE Spec2Model ----
(***************************************************************************)
(* Session lifecycle and entity registry of the Everything Presence One    *)
(* device driver (drivers/everything-presence-one/device.ts).              *)
(*                                                                         *)
(* The driver runs on a single-threaded event loop.  An event (a client    *)
(* event, a timer, a host callback) runs its handler to the first await;   *)
(* the continuations of settled promises (microtasks) all run before the   *)
(* next event is taken.  Every connect() call gets a number, and the       *)
(* Client it creates (if it gets that far) carries the same number.        *)
(***************************************************************************)
EXTENDS Integers, Sequences, FiniteSets, TLC

MaxCalls == 2      \* connect() calls made in one run
MaxHandles == 2    \* entity objects the clients announce in one run

VARIABLES
  inited,          \* onInit has run
  client,          \* this.client: 0 is undefined, else the Client's number
  connectPromise,  \* this.connectPromise: 0 is undefined, else the Client's number
  entities,        \* this.entities, in insertion order: <<[objectId, original]>>
  sessions,        \* the Client objects created so far
  handles,         \* the entity objects announced so far
  nHandles,        \* how many entity objects exist
  calls,           \* the connect() calls and where each one stands
  nCalls,          \* how many connect() calls were made
  deletion,        \* the disconnect() started by onDeleted
  avail,           \* the last availability reported to the host
  disconnected     \* the entity objects that had a 'state' listener when a
                   \* disconnect() that has completed was called

vars == <<inited, client, connectPromise, entities, sessions, handles, nHandles,
          calls, nCalls, deletion, avail, disconnected>>

CallIds == 1..MaxCalls
HandleIds == 1..MaxHandles

(***************************************************************************)
(* Errors and their messages.  A message is a sequence of words.           *)
(***************************************************************************)
EncryptionText == <<"Bad", "format:", "Encryption", "expected">>

Errors ==
  { [kind |-> "Error", text |-> EncryptionText],
    [kind |-> "Error", text |-> <<"Error:">> \o EncryptionText \o <<"(plaintext)">>],
    [kind |-> "Error", text |-> <<"Bad", "format:", "expected">>],
    [kind |-> "Error", text |-> <<"ECONNRESET">>],
    [kind |-> "string", text |-> EncryptionText],
    [kind |-> "object", text |-> <<"ETIMEDOUT">>] }

\* String(error) of a value that is no Error
String(error) ==
  IF error.kind = "string" THEN error.text ELSE <<"[object", "Object]">>

getErrorMessage(error) ==
  IF error.kind = "Error" THEN error.text ELSE String(error)

RECURSIVE includesFrom(_, _, _)
includesFrom(s, pat, i) ==
  IF i + Len(pat) > Len(s) THEN FALSE
  ELSE IF SubSeq(s, i + 1, i + Len(pat)) = pat THEN TRUE
  ELSE includesFrom(s, pat, i + 1)

\* a comparison of the whole message instead of a search in it
equals(s, pat) == s = pat

\* String.prototype.includes
includes(s, pat) == includesFrom(s, pat, 0)

IsEncryptionError(error) == includes(getErrorMessage(error), EncryptionText)

UNAVAILABLE_ENCRYPTED == "error.unavailable_encrypted"
UNAVAILABLE == "error.unavailable"
CONNECT_TIMEOUT_MESSAGE == "error.connect_timeout"

(***************************************************************************)
(* Clients (sessions) and their connect promise and timer.                 *)
(***************************************************************************)
\* A Client: whether the driver's listeners are on it, the connect promise and
\* the connect timer made with it, and whether listEntitiesService was called
NoSession ==
  [listeners |-> FALSE, promise |-> "none", timer |-> "none", listed |-> FALSE]

\* new Client(...), the three client.on(...), setTimeout and client.connect()
NewClient ==
  [listeners |-> TRUE, promise |-> "pending", timer |-> "armed", listed |-> FALSE]

Settled(ss, p) == IF p = 0 THEN TRUE ELSE ss[p].promise \in {"resolved", "rejected"}

\* resolve() and reject() of a promise: the first one wins
Resolve(s) == IF s.promise = "pending" THEN [s EXCEPT !.promise = "resolved"] ELSE s
Reject(s) == IF s.promise = "pending" THEN [s EXCEPT !.promise = "rejected"] ELSE s

\* an 'initialized' listener that leaves the connect timer running
LeaveTimeout(s) == s

\* homey.clearTimeout(connectTimeout)
ClearTimeout(s) == IF s.timer = "armed" THEN [s EXCEPT !.timer = "cleared"] ELSE s

\* a disconnect() that leaves the session listeners on the old Client
KeepListeners(s) == s

\* client.removeAllListeners()
RemoveAllListeners(s) == [s EXCEPT !.listeners = FALSE]

\* a client.disconnect() outside a try: its exception leaves disconnect()
ClientDisconnectUncaught(c, fails) == fails

\* try { this.client?.disconnect() } catch (err) { this.error(...) }: whether
\* an exception leaves the statement when client.disconnect() throws
ClientDisconnectThrows(c, fails) == FALSE

(***************************************************************************)
(* Entity objects and the registry.                                        *)
(***************************************************************************)
\* entity.config, the part of it the driver reads.  A uniqueId is a sequence
\* of pieces of text, a deviceClass of "undefined" is an absent one.
Configs ==
  { [objectId |-> "mmwave_led", deviceClass |-> "undefined",
     uniqueId |-> <<"epo-7083cc", "switch", "_", "mmwave", "_", "led">>],
    [objectId |-> "_illuminance", deviceClass |-> "illuminance",
     uniqueId |-> <<"epo-7083cc", "sensor", "_", "illuminance">>] }

\* what registerEntity, onSettings and disconnect() probe of an announced
\* object
WellFormed ==
  [schemaOk |-> TRUE, hasConnection |-> TRUE, hasOn |-> TRUE,
   hasRemoveAllListeners |-> TRUE, hasSetState |-> TRUE]

Shapes ==
  { WellFormed,
    [WellFormed EXCEPT !.schemaOk = FALSE],
    [WellFormed EXCEPT !.hasConnection = FALSE],
    [WellFormed EXCEPT !.hasOn = FALSE],
    [WellFormed EXCEPT !.hasRemoveAllListeners = FALSE] }

\* an entity object: the Client that made it, its config, whether it has a
\* removeAllListeners and a setState function, and its number of 'state'
\* listeners
NoHandle ==
  [session |-> 0, config |-> CHOOSE c \in Configs : TRUE,
   hasRemoveAllListeners |-> TRUE, hasSetState |-> TRUE, listeners |-> 0]

\* Map.prototype.get
EntityIndex(ents, objectId) ==
  IF \E i \in 1..Len(ents) : ents[i].objectId = objectId
  THEN CHOOSE i \in 1..Len(ents) : ents[i].objectId = objectId
  ELSE 0

EntitiesGet(ents, objectId) ==
  IF EntityIndex(ents, objectId) = 0 THEN 0
  ELSE ents[EntityIndex(ents, objectId)].original

\* a set that stores nothing
EntitiesSetNothing(ents, objectId, h) == ents

\* a set that adds an entry whether or not the key exists
EntitiesSetAppends(ents, objectId, h) ==
  Append(ents, [objectId |-> objectId, original |-> h])

\* Map.prototype.set: a key that exists keeps its place
EntitiesSet(ents, objectId, h) ==
  IF EntityIndex(ents, objectId) = 0
  THEN Append(ents, [objectId |-> objectId, original |-> h])
  ELSE [ents EXCEPT ![EntityIndex(ents, objectId)].original = h]

\* the entities.forEach of disconnect(): revoke, or throw at the first entry
\* whose object has no removeAllListeners
RECURSIVE RevokeEntities(_, _, _)
RevokeEntities(hs, ents, i) ==
  IF i > Len(ents) THEN [handles |-> hs, threw |-> FALSE]
  ELSE IF ~hs[ents[i].original].hasRemoveAllListeners
       THEN [handles |-> hs, threw |-> TRUE]
       ELSE RevokeEntities([hs EXCEPT ![ents[i].original].listeners = 0], ents, i + 1)

Subscribed(hs) == {h \in HandleIds : hs[h].listeners > 0}

(***************************************************************************)
(* disconnect() up to its await.                                           *)
(***************************************************************************)
DisconnectClient(ss, c) ==
  IF c = 0 THEN ss ELSE [ss EXCEPT ![c] = RemoveAllListeners(ss[c])]

DisconnectSync(fails) ==
  IF ClientDisconnectThrows(client, fails)
  THEN [sessions |-> sessions, handles |-> handles, threw |-> TRUE, waitsOn |-> 0,
        pre |-> {}]
  ELSE LET r == RevokeEntities(handles, entities, 1) IN
       [sessions |-> DisconnectClient(sessions, client),
        handles |-> r.handles,
        threw |-> r.threw,
        waitsOn |-> connectPromise,
        pre |-> IF r.threw THEN {} ELSE Subscribed(handles)]

(***************************************************************************)
(* connect() calls.                                                        *)
(***************************************************************************)
NoCall == [origin |-> "none", pc |-> "idle", waitsOn |-> 0, pre |-> {}]

\* a continuation that is ready to run
Runnable(c) ==
  \/ calls[c].pc = "inDisconnect" /\ Settled(sessions, calls[c].waitsOn)
  \/ calls[c].pc = "afterDisconnect"
  \/ calls[c].pc = "awaitConnect" /\ Settled(sessions, c)
  \/ calls[c].pc = "threw"

DeletionRunnable ==
  deletion.pc = "inDisconnect" /\ Settled(sessions, deletion.waitsOn)

\* the microtask queue is empty: the event loop takes the next event
Idle == ~DeletionRunnable /\ \A c \in CallIds : ~Runnable(c)

\* connect(), from its call to the await inside disconnect()
StartConnect(origin, fails) ==
  LET d == DisconnectSync(fails)
      c == nCalls + 1 IN
  /\ nCalls < MaxCalls
  /\ nCalls' = c
  /\ sessions' = d.sessions
  /\ handles' = d.handles
  /\ calls' = [calls EXCEPT ![c] =
       [origin |-> origin,
        pc |-> IF d.threw THEN "threw" ELSE "inDisconnect",
        waitsOn |-> d.waitsOn,
        pre |-> d.pre]]

Init ==
  /\ inited = FALSE
  /\ client = 0
  /\ connectPromise = 0
  /\ entities = <<>>
  /\ sessions = [c \in CallIds |-> NoSession]
  /\ handles = [h \in HandleIds |-> NoHandle]
  /\ nHandles = 0
  /\ calls = [c \in CallIds |-> NoCall]
  /\ nCalls = 0
  /\ deletion = [pc |-> "idle", waitsOn |-> 0, pre |-> {}]
  /\ disconnected = {}
  /\ avail = "initial"

\* client.disconnect() can only fail when there is a client
CloseOutcomes == IF client = 0 THEN {FALSE} ELSE BOOLEAN

\* onInit: this.connect().catch(log)
OnInit ==
  /\ ~inited
  /\ inited' = TRUE
  /\ \E fails \in CloseOutcomes : StartConnect("onInit", fails)
  /\ UNCHANGED <<disconnected, client, connectPromise, entities, nHandles,
                 deletion, avail>>

\* an await of the connect promise itself: its rejection is thrown
awaitConnectPromiseUncaught(ss, p) ==
  IF p # 0 /\ ss[p].promise = "rejected" THEN "threw" ELSE "returned"

\* await this.connectPromise?.catch(() => undefined), once the promise has
\* settled: how disconnect() ends
awaitConnectPromise(ss, p) == "returned"

\* disconnect() returns to the connect() that awaits it
DisconnectDone(c) ==
  /\ calls[c].pc = "inDisconnect"
  /\ Settled(sessions, calls[c].waitsOn)
  /\ calls' = [calls EXCEPT
       ![c].pc = IF awaitConnectPromise(sessions, calls[c].waitsOn) = "threw"
                 THEN "threw" ELSE "afterDisconnect",
       ![c].pre = {}]
  /\ disconnected' = disconnected \cup calls[c].pre
  /\ UNCHANGED <<inited, client, connectPromise, entities, sessions, handles,
                 nHandles, nCalls, deletion, avail>>

\* connect() after its disconnect(): the new Client, its listeners, the
\* connect promise with its timer, and client.connect()
ConnectProceed(c) ==
  /\ calls[c].pc = "afterDisconnect"
  /\ client' = c
  /\ connectPromise' = c
  /\ sessions' = [sessions EXCEPT ![c] = NewClient]
  /\ calls' = [calls EXCEPT ![c].pc = "awaitConnect"]
  /\ UNCHANGED <<disconnected, inited, entities, handles, nHandles, nCalls,
                 deletion, avail>>

\* a .catch that only logs, whoever called connect()
CatchLogOnly(origin, a) == a

\* the .catch of the caller of connect(): onInit logs, the error handler
\* reports the device unavailable
CatchConnect(origin, a) == IF origin = "error" THEN UNAVAILABLE ELSE a

\* the promise connect() returned settles, and the caller's .catch runs if it
\* rejected
ConnectSettled(c) ==
  /\ \/ calls[c].pc = "threw"
     \/ calls[c].pc = "awaitConnect" /\ Settled(sessions, c)
  /\ LET outcome == IF calls[c].pc = "threw" THEN "threw"
                    ELSE IF sessions[c].promise = "resolved" THEN "resolved"
                    ELSE CONNECT_TIMEOUT_MESSAGE IN
     /\ calls' = [calls EXCEPT ![c].pc = "done"]
     /\ avail' = IF outcome = "resolved" THEN avail
                 ELSE CatchConnect(calls[c].origin, avail)
  /\ UNCHANGED <<disconnected, inited, client, connectPromise, entities, sessions, handles,
                 nHandles, nCalls, deletion>>

\* onDeleted: this.disconnect().catch(() => undefined)
OnDeleted ==
  /\ inited
  /\ deletion.pc = "idle"
  /\ Idle
  /\ \E fails \in CloseOutcomes :
       LET d == DisconnectSync(fails) IN
       /\ sessions' = d.sessions
       /\ handles' = d.handles
       /\ deletion' = [pc |-> IF d.threw THEN "threw" ELSE "inDisconnect",
                       waitsOn |-> d.waitsOn, pre |-> d.pre]
  /\ UNCHANGED <<disconnected, inited, client, connectPromise, entities, nHandles, calls,
                 nCalls, avail>>

\* the disconnect() of onDeleted completes
DeletionDone ==
  /\ DeletionRunnable
  /\ deletion' = [deletion EXCEPT
       !.pc = IF awaitConnectPromise(sessions, deletion.waitsOn) = "threw"
              THEN "threw" ELSE "done",
       !.pre = {}]
  /\ disconnected' = disconnected \cup deletion.pre
  /\ UNCHANGED <<inited, client, connectPromise, entities, sessions, handles,
                 nHandles, calls, nCalls, avail>>

\* the connect timer of a Client fires: reject(new Error(connect_timeout))
ConnectTimeout(s) ==
  /\ Idle
  /\ sessions[s].timer = "armed"
  /\ sessions' = [sessions EXCEPT ![s] = Reject([@ EXCEPT !.timer = "fired"])]
  /\ UNCHANGED <<disconnected, inited, client, connectPromise, entities, handles, nHandles,
                 calls, nCalls, deletion, avail>>

\* the 'initialized' listener of a Client
OnInitialized(s) ==
  /\ sessions[s].listeners
  /\ Idle
  /\ sessions' = [sessions EXCEPT ![s] = Resolve(ClearTimeout(@)),
                                  ![client].listed = TRUE]
  /\ avail' = "available"
  /\ UNCHANGED <<disconnected, inited, client, connectPromise, entities, handles, nHandles,
                 calls, nCalls, deletion>>

\* the 'error' listener of a Client
OnError(s, error) ==
  /\ sessions[s].listeners
  /\ Idle
  /\ IF IsEncryptionError(error)
     THEN /\ avail' = UNAVAILABLE_ENCRYPTED
          /\ UNCHANGED <<sessions, handles, calls, nCalls>>
     ELSE /\ \E fails \in CloseOutcomes : StartConnect("error", fails)
          /\ avail' = avail
  /\ UNCHANGED <<disconnected, inited, client, connectPromise, entities, nHandles,
                 deletion>>

\* a parse that accepts every payload
safeParseAny(shape) == TRUE

\* entitySchema.safeParse(entity).success
safeParse(shape) == shape.schemaOk

\* registerEntity(entity): entity is the object h announced by Client s
registerEntity(ents, hs, h, s, config, shape) ==
  IF ~safeParse(shape)
  THEN [entities |-> ents, handles |-> hs, threw |-> FALSE]
  ELSE LET made == [session |-> s, config |-> config,
                    hasRemoveAllListeners |-> shape.hasRemoveAllListeners,
                    hasSetState |-> shape.hasSetState,
                    listeners |-> hs[h].listeners]
           set == EntitiesSet(ents, config.objectId, h) IN
       IF ~shape.hasConnection \/ ~shape.hasOn
       THEN [entities |-> set, handles |-> [hs EXCEPT ![h] = made], threw |-> TRUE]
       ELSE [entities |-> set,
             handles |-> [hs EXCEPT ![h] = [made EXCEPT !.listeners = @ + 1]],
             threw |-> FALSE]

\* the 'newEntity' listener of a Client
OnNewEntity(s, config, shape) ==
  /\ sessions[s].listeners
  /\ sessions[s].listed
  /\ nHandles < MaxHandles
  /\ Idle
  /\ LET h == nHandles + 1
         r == registerEntity(entities, handles, h, s, config, shape) IN
     /\ nHandles' = IF safeParse(shape) THEN h ELSE nHandles
     /\ entities' = r.entities
     /\ handles' = r.handles
  /\ UNCHANGED <<disconnected, inited, client, connectPromise, sessions, calls, nCalls,
                 deletion, avail>>

\* the entity object h has a 'state' listener and can emit a state event
StateListenerRuns(h) == handles[h].listeners > 0 /\ Idle

\* onEntityState: this.entities.get(entityId), 0 when it is missing (the
\* listener catches the 'Missing entity' error)
onEntityStateEntity(h) == EntitiesGet(entities, handles[h].config.objectId)

\* values of a state event's state field and of a setting, as the text that
\* prints them
StateValues == {"21", "true", "undefined"}

\* the typeof operator
typeof(value) ==
  IF value \in {"0", "21"} THEN "number"
  ELSE IF value \in {"true", "false"} THEN "boolean"
  ELSE IF value = "undefined" THEN "undefined"
  ELSE "string"

\* a check that knows only the uniqueId of the older firmware
includesBinarySensorMMWaveOld(data) ==
  includes(data.uniqueId, <<"binary_sensor", "_", "mmwave">>)

includesBinarySensorMMWave(data) ==
  \/ includes(data.uniqueId, <<"binary_sensor", "_", "mmwave">>)
  \/ includes(data.uniqueId, <<"binary_sensor", "mmwave">>)

includesBinarySensorOccupancy(data) ==
  \/ includes(data.uniqueId, <<"binary_sensor", "_", "occupancy">>)
  \/ includes(data.uniqueId, <<"binary_sensor", "occupancy">>)

\* this.setCapabilityValue(id, value).catch(log) and
\* this.setSettings({[key]: value}).catch(log): the call made, and that its
\* rejection is handled
setCapabilityValue(id, value) ==
  <<[api |-> "setCapabilityValue", key |-> id, value |-> value, caught |-> TRUE]>>

setSettings(key, value) ==
  <<[api |-> "setSettings", key |-> key, value |-> value, caught |-> TRUE]>>

\* case 'occupancy' of the switch on deviceClass
occupancyCase(data, value) ==
  IF typeof(value) = "boolean"
  THEN IF includesBinarySensorMMWave(data)
       THEN setCapabilityValue("alarm_motion.mmwave", value)
       ELSE IF includesBinarySensorOccupancy(data)
            THEN setCapabilityValue("alarm_motion", value)
            ELSE <<>>
  ELSE <<>>

\* a case 'motion' without its break: it falls through into case 'occupancy'
motionCaseFallsThrough(data, value) ==
  (IF typeof(value) = "boolean"
   THEN setCapabilityValue("alarm_motion.pir", value)
   ELSE <<>>) \o occupancyCase(data, value)

\* case 'motion' of the switch on deviceClass
motionCase(data, value) ==
  IF typeof(value) = "boolean"
  THEN setCapabilityValue("alarm_motion.pir", value)
  ELSE <<>>

\* a numeric case of the switch on deviceClass that does not look at the type
\* of the value
measureCaseUntyped(id, value) == setCapabilityValue(id, value)

\* the cases 'temperature', 'humidity' and 'illuminance' of the switch on
\* deviceClass
measureCase(id, value) ==
  IF typeof(value) = "number" THEN setCapabilityValue(id, value) ELSE <<>>

\* switch (entity.config.deviceClass): the calls it makes
deviceClassSwitch(data, value) ==
  CASE data.deviceClass = "temperature" -> measureCase("measure_temperature", value)
    [] data.deviceClass = "humidity" -> measureCase("measure_humidity", value)
    [] data.deviceClass = "illuminance" -> measureCase("measure_luminance", value)
    [] data.deviceClass = "motion" -> motionCase(data, value)
    [] data.deviceClass = "occupancy" -> occupancyCase(data, value)
    [] OTHER -> <<>>

NUMBER_SETTINGS ==
  {"mmwave_sensitivity", "mmwave_on_latency", "mmwave_off_latency", "mmwave_distance"}

BOOLEAN_SETTINGS == {"mmwave_led", "esp32_status_led"}

\* a switch on objectId that writes every value it gets for a setting
objectIdSwitchUntyped(data, value) ==
  IF data.objectId \in NUMBER_SETTINGS \cup BOOLEAN_SETTINGS
  THEN setSettings(data.objectId, value)
  ELSE <<>>

\* switch (entity.config.objectId): the calls it makes
objectIdSwitch(data, value) ==
  IF data.objectId \in NUMBER_SETTINGS
  THEN IF typeof(value) = "number" THEN setSettings(data.objectId, value) ELSE <<>>
  ELSE IF data.objectId \in BOOLEAN_SETTINGS
       THEN IF typeof(value) = "boolean" THEN setSettings(data.objectId, value) ELSE <<>>
       ELSE <<>>

\* onEntityState(entityId, state): the calls it makes, or that it threw
\* 'Missing entity'
onEntityState(ents, hs, entityId, value) ==
  IF EntitiesGet(ents, entityId) = 0
  THEN [calls |-> <<>>, threw |-> TRUE]
  ELSE LET data == hs[EntitiesGet(ents, entityId)].config IN
       [calls |-> deviceClassSwitch(data, value) \o objectIdSwitch(data, value),
        threw |-> FALSE]

\* the 'state' listener of the entity object h: try { onEntityState } catch
\* { log }
stateListener(ents, hs, h, value) ==
  LET r == onEntityState(ents, hs, hs[h].config.objectId, value) IN
  [calls |-> r.calls, threw |-> FALSE, logged |-> r.threw]

\* the 'state' listener registerEntity put on the entity object h runs: it
\* reads the registry, calls the host, and changes nothing of the session
OnState(h, value) ==
  /\ StateListenerRuns(h)
  /\ stateListener(entities, handles, h, value).threw \in BOOLEAN
  /\ UNCHANGED vars

DRIVER_SETTINGS ==
  {"esp32_status_led", "mmwave_led", "mmwave_on_latency", "mmwave_off_latency",
   "mmwave_sensitivity", "mmwave_distance"}

\* typeof value === 'number' || typeof value === 'boolean'
isNumberOrBoolean(value) == typeof(value) \in {"number", "boolean"}

\* the loop of onSettings over changedKeys from index i: the setState calls
\* made on entity objects, and whether it threw
RECURSIVE onSettings(_, _, _, _)
onSettings(changedKeys, newSettings, i, commanded) ==
  IF i > Len(changedKeys) THEN [commanded |-> commanded, threw |-> FALSE]
  ELSE LET changedKey == changedKeys[i]
           original == EntitiesGet(entities, changedKey)
           value == newSettings[changedKey] IN
       IF changedKey \notin DRIVER_SETTINGS
       THEN onSettings(changedKeys, newSettings, i + 1, commanded)
       ELSE IF original = 0
            THEN [commanded |-> commanded, threw |-> TRUE]
       ELSE IF isNumberOrBoolean(value)
            THEN IF ~handles[original].hasSetState
                 THEN [commanded |-> commanded, threw |-> TRUE]
                 ELSE onSettings(changedKeys, newSettings, i + 1,
                        Append(commanded, [key |-> changedKey, original |-> original,
                                           value |-> value]))
       ELSE onSettings(changedKeys, newSettings, i + 1, commanded)

ChangedKeys ==
  { <<"mmwave_led">>, <<"ip">>, <<"mmwave_distance", "mmwave_led">>,
    <<"mmwave_led", "mmwave_distance">> }

SettingKeys == DRIVER_SETTINGS \cup {"ip"}

\* newSettings: every key with the same value, or every key with a value of
\* the type its setting has
NewSettings ==
  { [k \in SettingKeys |-> v] : v \in StateValues }
  \cup { [k \in SettingKeys |->
            IF k \in NUMBER_SETTINGS THEN "21"
            ELSE IF k \in BOOLEAN_SETTINGS THEN "true" ELSE "on"] }

\* the host calls onSettings while the device exists
SettingsWriterRuns == Idle /\ inited /\ deletion.pc = "idle"

\* onSettings: it commands entity objects and changes nothing of the session
OnSettings(changedKeys, newSettings) ==
  /\ SettingsWriterRuns
  /\ onSettings(changedKeys, newSettings, 1, <<>>).threw \in BOOLEAN
  /\ UNCHANGED vars

Microtask ==
  \/ \E c \in CallIds : DisconnectDone(c)
  \/ \E c \in CallIds : ConnectProceed(c)
  \/ \E c \in CallIds : ConnectSettled(c)
  \/ DeletionDone

Timer == \E s \in CallIds : ConnectTimeout(s)

Next ==
  \/ OnInit
  \/ Microtask
  \/ Timer
  \/ OnDeleted
  \/ \E s \in CallIds : OnInitialized(s)
  \/ \E s \in CallIds, error \in Errors : OnError(s, error)
  \/ \E s \in CallIds, config \in Configs, shape \in Shapes : OnNewEntity(s, config, shape)
  \/ \E h \in HandleIds, value \in StateValues : OnState(h, value)
  \/ \E changedKeys \in ChangedKeys, newSettings \in NewSettings :
       OnSettings(changedKeys, newSettings)

Spec == Init /\ [][Next]_vars

\* The event loop runs every ready continuation, and an armed timer fires.
LiveSpec == Spec /\ WF_vars(Microtask) /\ WF_vars(Timer)

(***************************************************************************)
(* The registry and the dispatch of one connected session, with entity     *)
(* announcements drawn from a wider set: every deviceClass the driver      *)
(* tells apart, the uniqueId forms of the occupancy sensors, the six       *)
(* setting ids.                                                            *)
(***************************************************************************)
DeviceClasses ==
  {"temperature", "humidity", "illuminance", "motion", "occupancy", "power",
   "undefined"}

UniqueIds ==
  { <<"epo-7083cc", "binary_sensor", "_", "mmwave">>,
    <<"epo-7083cc", "binary_sensor", "mmwave">>,
    <<"epo-7083cc", "binary_sensor", "_", "occupancy">>,
    <<"epo-7083cc", "binary_sensor", "occupancy">>,
    <<"binary_sensor", "_", "occupancy", "binary_sensor", "mmwave">>,
    <<"epo-7083cc", "sensor", "_", "mmwave">>,
    <<"epo-7083cc", "sensor", "_", "illuminance">> }

NeutralUniqueId == <<"epo-7083cc", "sensor", "_", "illuminance">>

EntityData ==
  { [objectId |-> o, deviceClass |-> d, uniqueId |-> NeutralUniqueId] :
      o \in {"_illuminance", "mmwave_distance", "mmwave_led"}, d \in DeviceClasses }
  \cup { [objectId |-> o, deviceClass |-> d, uniqueId |-> u] :
      o \in {"mmwave_led"}, d \in {"motion", "occupancy"}, u \in UniqueIds }
  \cup { [objectId |-> "_occupancy", deviceClass |-> "occupancy", uniqueId |-> u] :
      u \in UniqueIds }
  \cup { [objectId |-> o, deviceClass |-> "undefined", uniqueId |-> NeutralUniqueId] :
      o \in DRIVER_SETTINGS }

\* an entity with an objectId of its own
OtherEntity ==
  [objectId |-> "uptime", deviceClass |-> "duration", uniqueId |-> NeutralUniqueId]

\* another entity with the same objectId and another deviceClass
SameObjectId(config) ==
  [config EXCEPT !.deviceClass = IF @ = "temperature" THEN "humidity" ELSE "temperature"]

\* the first announcement is any entity, the later ones are that entity
\* again, another one under its objectId, or one under another objectId
Announced ==
  IF nHandles = 0 THEN EntityData
  ELSE {handles[1].config, SameObjectId(handles[1].config), OtherEntity}

AnnouncedShapes == Shapes \cup {[WellFormed EXCEPT !.hasSetState = FALSE]}

\* the session once the connect() of onInit has resolved
Connected ==
  /\ inited = TRUE
  /\ client = 1
  /\ connectPromise = 1
  /\ sessions = [c \in CallIds |->
       IF c = 1 THEN [listeners |-> TRUE, promise |-> "resolved",
                      timer |-> "cleared", listed |-> TRUE]
       ELSE NoSession]
  /\ calls = [c \in CallIds |->
       IF c = 1 THEN [origin |-> "onInit", pc |-> "done", waitsOn |-> 0, pre |-> {}]
       ELSE NoCall]
  /\ nCalls = 1
  /\ deletion = [pc |-> "idle", waitsOn |-> 0, pre |-> {}]
  /\ disconnected = {}
  /\ avail = "available"

DispatchInit ==
  /\ Connected
  /\ entities = <<>>
  /\ handles = [h \in HandleIds |-> NoHandle]
  /\ nHandles = 0

DispatchNext ==
  \/ \E config \in Announced, shape \in AnnouncedShapes : OnNewEntity(1, config, shape)
  \/ \E h \in HandleIds, value \in StateValues : OnState(h, value)
  \/ \E changedKeys \in ChangedKeys, newSettings \in NewSettings :
       OnSettings(changedKeys, newSettings)

DispatchSpec == DispatchInit /\ [][DispatchNext]_vars

(***************************************************************************)
(* Properties.                                                             *)
(***************************************************************************)

Live == {s \in CallIds : sessions[s].listeners}

DisconnectCompletes == (\E c \in CallIds : DisconnectDone(c)) \/ DeletionDone

\* C1: whenever disconnect() completes, the entity registry is empty.
C1_RegistryEmptyAfterDisconnect ==
  [][DisconnectCompletes => entities' = <<>>]_vars

C3_LookupReturnsCurrentSession ==
  /\ \A i \in 1..Len(entities) : handles[entities[i].original].session = client
  /\ SettingsWriterRuns =>
       \A changedKeys \in ChangedKeys, newSettings \in NewSettings :
         LET commanded == onSettings(changedKeys, newSettings, 1, <<>>).commanded IN
         \A i \in 1..Len(commanded) : handles[commanded[i].original].session = client

\* C4: no 'state' listener runs on an entity object that was subscribed when
\* a disconnect() that has completed was called.
C4_NoStateAfterDisconnect ==
  \A h \in HandleIds : StateListenerRuns(h) => h \notin disconnected

ContainsEncryptionText(m) ==
  \E i \in 1..Len(m) :
    /\ i + 3 <= Len(m)
    /\ m[i] = "Bad" /\ m[i + 1] = "format:"
    /\ m[i + 2] = "Encryption" /\ m[i + 3] = "expected"

\* C5: an error whose message contains the encryption text makes no connect()
\* call and reports the device unavailable with the encrypted reason; any
\* other error makes exactly one connect() call, from the error handler.
C5_EncryptionErrorNeverReconnects ==
  [][\A s \in CallIds, error \in Errors :
       OnError(s, error) =>
         IF ContainsEncryptionText(getErrorMessage(error))
         THEN nCalls' = nCalls /\ calls' = calls /\ avail' = UNAVAILABLE_ENCRYPTED
         ELSE nCalls' = nCalls + 1 /\ calls'[nCalls'].origin = "error"]_vars

\* an error started a reconnect, and an encryption error was reported after it
C5_Witness ==
  /\ nCalls = 2
  /\ calls[2].origin = "error"
  /\ avail = UNAVAILABLE_ENCRYPTED

\* C6: once the device is unavailable for the encryption mismatch, it stays
\* so and no connect() is called.
C6_EncryptedIsTerminal ==
  [][avail = UNAVAILABLE_ENCRYPTED =>
       avail' = UNAVAILABLE_ENCRYPTED /\ nCalls' = nCalls]_vars

\* C7: a connect promise rejects exactly by its timer firing and resolves
\* with its timer cleared; a settled promise has no armed timer.
C7_TimerSettlesWithPromise ==
  \A s \in CallIds :
    /\ sessions[s].promise = "pending" <=> sessions[s].timer = "armed"
    /\ sessions[s].promise = "rejected" <=> sessions[s].timer = "fired"
    /\ sessions[s].promise = "resolved" <=> sessions[s].timer = "cleared"

\* one attempt timed out and a later one was initialized
C7_Witness ==
  /\ sessions[1].promise = "rejected" /\ sessions[1].timer = "fired"
  /\ sessions[2].promise = "resolved" /\ sessions[2].timer = "cleared"

\* C8: a Client whose connect attempt timed out is no longer live: it runs
\* no 'initialized' and no 'newEntity' listener.
C8_TimedOutSessionIsDead ==
  [][\A s \in CallIds :
       sessions[s].timer = "fired" =>
         /\ ~OnInitialized(s)
         /\ \A config \in Configs, shape \in Shapes : ~OnNewEntity(s, config, shape)]_vars

TimedOut(c) == calls[c].pc = "awaitConnect" /\ sessions[c].promise = "rejected"

\* C9: a connect() that times out reports the device unavailable with the
\* timeout message, a reconnect that fails otherwise with the generic
\* message, and an encryption error with the encrypted message.
C9_EveryFailureReported ==
  [][/\ \A c \in CallIds :
          ConnectSettled(c) =>
            /\ TimedOut(c) => avail' = CONNECT_TIMEOUT_MESSAGE
            /\ calls[c].pc = "threw" /\ calls[c].origin = "error" => avail' = UNAVAILABLE
     /\ \A s \in CallIds, error \in Errors :
          OnError(s, error) /\ ContainsEncryptionText(getErrorMessage(error))
            => avail' = UNAVAILABLE_ENCRYPTED]_vars

\* C10: a reconnect started by the error handler settles; when it settles
\* rejected the device is reported unavailable with the generic reason, and
\* when it settles resolved the device is reported available.
C10_ReconnectSettles ==
  /\ [][\A c \in CallIds :
          ConnectSettled(c) /\ calls[c].origin = "error" =>
            IF calls[c].pc = "awaitConnect" /\ sessions[c].promise = "resolved"
            THEN avail' = "available"
            ELSE avail' = UNAVAILABLE]_vars
  /\ \A c \in CallIds :
       (calls[c].origin = "error") ~> (calls[c].pc = "done")

\* a reconnect failed and the device was reported unavailable
C10_Witness ==
  /\ calls[2].origin = "error"
  /\ calls[2].pc = "done"
  /\ sessions[2].promise = "rejected"
  /\ avail = UNAVAILABLE

\* the 'newEntity' listener of the connected Client can run
NewEntityRuns ==
  Idle /\ client # 0 /\ sessions[client].listeners /\ sessions[client].listed
       /\ nHandles < MaxHandles

Malformed == {shape \in AnnouncedShapes : ~shape.schemaOk}
SchemaValid == {shape \in AnnouncedShapes : shape.schemaOk}

\* C11: registerEntity of a payload that fails the entity schema leaves the
\* registry and every entity object as they were (nothing stored, nothing
\* subscribed) and does not throw.
C11_MalformedEntityIgnored ==
  NewEntityRuns =>
    \A config \in Announced, shape \in Malformed :
      LET r == registerEntity(entities, handles, nHandles + 1, client, config, shape) IN
      /\ r.entities = entities
      /\ r.handles = handles
      /\ ~r.threw

\* a malformed payload can be announced to a registry that holds an entity
C11_Witness == NewEntityRuns /\ Len(entities) = 1 /\ Subscribed(handles) # {}

Entry(ents, objectId) == {i \in 1..Len(ents) : ents[i].objectId = objectId}

\* C12: after registerEntity of a schema-valid entity, the lookup by its
\* objectId returns that object and its data; the objectId has one entry, so
\* an earlier entry under it is replaced; the entries under other objectIds
\* are as before; registering the same entity once more gives the same
\* registry.
C12_LatestRegistrationWins ==
  [][\A config \in Announced, shape \in SchemaValid :
       OnNewEntity(client, config, shape) =>
         LET h == nHandles + 1 IN
         /\ EntitiesGet(entities', config.objectId) = h
         /\ handles'[h].config = config
         /\ Cardinality(Entry(entities', config.objectId)) = 1
         /\ Len(entities') =
              Len(entities) + (IF Entry(entities, config.objectId) = {} THEN 1 ELSE 0)
         /\ \A i \in 1..Len(entities) :
              entities[i].objectId # config.objectId =>
                /\ EntitiesGet(entities', entities[i].objectId) = entities[i].original
                /\ handles'[entities[i].original] = handles[entities[i].original]
         /\ registerEntity(entities', handles', h, client, config, shape).entities
              = entities']_vars

\* a second object was registered under the objectId of the first
C12_Witness ==
  /\ nHandles = 2
  /\ Len(entities) = 1
  /\ entities[1].original = 2
  /\ handles[1].config.objectId = handles[2].config.objectId

IsCapabilityCall(call) == call.api = "setCapabilityValue"
IsSettingCall(call) == call.api = "setSettings"

CapabilityCalls(h, value) ==
  SelectSeq(stateListener(entities, handles, h, value).calls, IsCapabilityCall)

SettingCalls(h, value) ==
  SelectSeq(stateListener(entities, handles, h, value).calls, IsSettingCall)

\* the registry's data of the entity whose listener runs on h
DataOf(h) == handles[onEntityStateEntity(h)].config

MeasureCapability ==
  [temperature |-> "measure_temperature", humidity |-> "measure_humidity",
   illuminance |-> "measure_luminance"]

\* C13: a state event of an entity of class temperature, humidity or
\* illuminance writes the value to that class's capability when it is a
\* number and writes no capability otherwise; one of class motion writes it
\* to alarm_motion.pir when it is a boolean and writes none otherwise; no
\* error either way.
C13_CapabilityByClassAndType ==
  \A h \in HandleIds, value \in StateValues :
    StateListenerRuns(h) =>
      LET written == CapabilityCalls(h, value)
          class == DataOf(h).deviceClass IN
      /\ ~stateListener(entities, handles, h, value).threw
      /\ ~stateListener(entities, handles, h, value).logged
      /\ class \in DOMAIN MeasureCapability =>
           IF typeof(value) = "number"
           THEN /\ Len(written) = 1
                /\ written[1].key = MeasureCapability[class]
                /\ written[1].value = value
           ELSE written = <<>>
      /\ class = "motion" =>
           IF typeof(value) = "boolean"
           THEN /\ Len(written) = 1
                /\ written[1].key = "alarm_motion.pir"
                /\ written[1].value = value
           ELSE written = <<>>

\* a temperature entity that is also a setting is subscribed
C13_Witness ==
  \E h \in HandleIds :
    /\ StateListenerRuns(h)
    /\ DataOf(h).deviceClass = "temperature"
    /\ DataOf(h).objectId = "mmwave_distance"

MatchesMMWave(uniqueId) ==
  \E i \in 1..Len(uniqueId) :
    /\ uniqueId[i] = "binary_sensor"
    /\ \/ i + 1 <= Len(uniqueId) /\ uniqueId[i + 1] = "mmwave"
       \/ i + 2 <= Len(uniqueId) /\ uniqueId[i + 1] = "_" /\ uniqueId[i + 2] = "mmwave"

MatchesOccupancy(uniqueId) ==
  \E i \in 1..Len(uniqueId) :
    /\ uniqueId[i] = "binary_sensor"
    /\ \/ i + 1 <= Len(uniqueId) /\ uniqueId[i + 1] = "occupancy"
       \/ i + 2 <= Len(uniqueId) /\ uniqueId[i + 1] = "_" /\ uniqueId[i + 2] = "occupancy"

\* C14: a boolean state event of an occupancy entity writes the value to
\* alarm_motion.mmwave when the uniqueId has one of the two mmwave forms, and
\* otherwise to alarm_motion when it has one of the two occupancy forms;
\* exactly one capability is written when it has either, none when it has
\* neither, and none for a value that is no boolean.
C14_OccupancyRoutes ==
  \A h \in HandleIds, value \in StateValues :
    StateListenerRuns(h) /\ DataOf(h).deviceClass = "occupancy" =>
      LET written == CapabilityCalls(h, value)
          uniqueId == DataOf(h).uniqueId IN
      IF typeof(value) # "boolean" THEN written = <<>>
      ELSE /\ MatchesMMWave(uniqueId) =>
                Len(written) = 1 /\ written[1].key = "alarm_motion.mmwave"
                                 /\ written[1].value = value
           /\ MatchesOccupancy(uniqueId) /\ ~MatchesMMWave(uniqueId) =>
                Len(written) = 1 /\ written[1].key = "alarm_motion"
                                 /\ written[1].value = value
           /\ ~MatchesMMWave(uniqueId) /\ ~MatchesOccupancy(uniqueId) => written = <<>>

\* an occupancy entity with the newer mmwave uniqueId is subscribed
C14_Witness ==
  \E h \in HandleIds :
    /\ StateListenerRuns(h)
    /\ DataOf(h).deviceClass = "occupancy"
    /\ DataOf(h).uniqueId = <<"epo-7083cc", "binary_sensor", "mmwave">>

\* C15: a run of a 'state' listener makes at most one setCapabilityValue
\* call and at most one setSettings call, the rejection of each is handled,
\* and nothing is thrown out of the listener, whether or not onEntityState
\* threw.
C15_DispatchNeverPropagates ==
  \A h \in HandleIds, value \in StateValues :
    StateListenerRuns(h) =>
      LET r == stateListener(entities, handles, h, value) IN
      /\ Len(SelectSeq(r.calls, IsCapabilityCall)) <= 1
      /\ Len(SelectSeq(r.calls, IsSettingCall)) <= 1
      /\ ~r.threw
      /\ \A i \in 1..Len(r.calls) : r.calls[i].caught

\* a listener run that makes a capability call and a setting call
C15_Witness ==
  \E h \in HandleIds :
    /\ StateListenerRuns(h)
    /\ Len(CapabilityCalls(h, "true")) = 1
    /\ Len(SettingCalls(h, "true")) = 1

SettingType(key) == IF key \in NUMBER_SETTINGS THEN "number" ELSE "boolean"

\* C16: for a change of one of the six setting keys, onSettings throws and
\* commands nothing when the registry has no entry for the key; when it has
\* one, it commands that entry's object with the new value exactly when the
\* value has the type of the setting.
C16_SettingsCommandByType ==
  SettingsWriterRuns =>
    \A key \in DRIVER_SETTINGS, newSettings \in NewSettings :
      LET r == onSettings(<<key>>, newSettings, 1, <<>>) IN
      IF EntitiesGet(entities, key) = 0
      THEN r.threw /\ r.commanded = <<>>
      ELSE IF typeof(newSettings[key]) = SettingType(key)
           THEN /\ ~r.threw
                /\ r.commanded = <<[key |-> key, original |-> EntitiesGet(entities, key),
                                     value |-> newSettings[key]]>>
           ELSE r.commanded = <<>>

\* C20: a run of a 'state' listener calls setSettings exactly when the
\* objectId is one of the six setting ids and the value has that setting's
\* type, with the objectId as the key and the value as the value, whatever
\* the deviceClass is and whatever capability is written; nothing is thrown.
C20_SettingByObjectIdAndType ==
  \A h \in HandleIds, value \in StateValues :
    StateListenerRuns(h) =>
      LET written == SettingCalls(h, value)
          objectId == DataOf(h).objectId IN
      /\ ~stateListener(entities, handles, h, value).threw
      /\ ~stateListener(entities, handles, h, value).logged
      /\ IF objectId \in DRIVER_SETTINGS /\ typeof(value) = SettingType(objectId)
         THEN /\ Len(written) = 1
              /\ written[1].key = objectId
              /\ written[1].value = value
         ELSE written = <<>>

\* a numeric setting that is also a temperature sensor, and an entity that
\* is no setting, are subscribed
C20_Witness ==
  /\ \E h \in HandleIds :
       /\ StateListenerRuns(h)
       /\ DataOf(h).objectId = "mmwave_sensitivity"
  /\ \E h \in HandleIds :
       /\ StateListenerRuns(h)
       /\ DataOf(h).objectId = "uptime"

\* some registry entry's object has no removeAllListeners function
LacksRevoke ==
  \E i \in 1..Len(entities) : ~handles[entities[i].original].hasRemoveAllListeners

\* C17: a disconnect() throws exactly when some registry entry's object has
\* no removeAllListeners, whether or not client.disconnect() failed, and so
\* never while there is no Client; when a disconnect() completes, the Client
\* it was called on (the one whose connect promise it awaited) and the object
\* of every registry entry have no listener of the driver.
C17_DisconnectRaisesOnlyOnMissingRevoke ==
  [][/\ nCalls' = nCalls + 1 => (calls'[nCalls'].pc = "threw" <=> LacksRevoke)
     /\ deletion.pc = "idle" /\ deletion'.pc # "idle"
          => (deletion'.pc = "threw" <=> LacksRevoke)
     /\ client = 0 => ~LacksRevoke
     /\ \A c \in CallIds :
          DisconnectDone(c) /\ calls[c].waitsOn # 0
            => ~sessions'[calls[c].waitsOn].listeners
     /\ DeletionDone /\ deletion.waitsOn # 0
          => ~sessions'[deletion.waitsOn].listeners
     /\ DisconnectCompletes =>
          \A i \in 1..Len(entities') :
            handles'[entities'[i].original].listeners = 0]_vars

\* the disconnect() of a reconnect threw on a registry entry, and the
\* disconnect() of onDeleted threw as well
C17_Witness ==
  /\ calls[2].pc = "done"
  /\ sessions[2].promise = "none"
  /\ deletion.pc = "threw"
  /\ LacksRevoke

\* C18: whenever a 'state' listener installed by registerEntity runs, the
\* registry holds an entry for its objectId: onEntityState never throws
\* 'Missing entity' there.
C18_RegisteredBeforeDispatch ==
  \A h \in HandleIds :
    StateListenerRuns(h) =>
      /\ onEntityStateEntity(h) # 0
      /\ \A value \in StateValues :
           ~onEntityState(entities, handles, handles[h].config.objectId, value).threw

\* the listener of an object of the first Client runs after a reconnect
C18_Witness ==
  \E h \in HandleIds :
    /\ StateListenerRuns(h)
    /\ client = 2
    /\ handles[h].session = 1

\* C19: a registerEntity that stores an entry for the announced object also
\* subscribes to it and does not throw.
C19_StoredEntryIsSubscribed ==
  [][\A s \in CallIds, config \in Configs, shape \in Shapes :
       OnNewEntity(s, config, shape) =>
         LET h == nHandles + 1 IN
         EntitiesGet(entities', config.objectId) = h /\ entities' # entities =>
           /\ handles'[h].listeners > 0
           /\ ~registerEntity(entities, handles, h, s, config, shape).threw]_vars

\* C21: a disconnect() that waits for a connect attempt completes once the
\* attempt has settled, and it returns without an error whether the attempt
\* resolved or rejected.
C21_DisconnectSwallowsConnectOutcome ==
  /\ [][/\ \A c \in CallIds : DisconnectDone(c) => calls'[c].pc = "afterDisconnect"
        /\ DeletionDone => deletion'.pc = "done"]_vars
  /\ \A c \in CallIds :
       (calls[c].pc = "inDisconnect") ~> (calls[c].pc = "afterDisconnect")
  /\ (deletion.pc = "inDisconnect") ~> (deletion.pc = "done")

\* the disconnect() of onDeleted has returned after a connect attempt that
\* timed out, and the disconnect() of a reconnect after one that resolved
C21_Witness ==
  /\ deletion.pc = "done"
  /\ deletion.waitsOn # 0
  /\ sessions[deletion.waitsOn].promise = "rejected"
  /\ \E c \in CallIds :
       /\ calls[c].origin = "error"
       /\ calls[c].pc \in {"awaitConnect", "done"}
       /\ calls[c].waitsOn # 0
       /\ sessions[calls[c].waitsOn].promise = "resolved"

\* C22: every entity object that has a 'state' listener has exactly one and
\* is the object the registry holds under its objectId, so no two objects
\* with the same objectId are subscribed at once.
C22_SubscribedIsRegistered ==
  \A h \in HandleIds :
    handles[h].listeners > 0 =>
      /\ handles[h].listeners = 1
      /\ EntitiesGet(entities, handles[h].config.objectId) = h
      /\ \A g \in HandleIds \ {h} :
           handles[g].listeners > 0
             => handles[g].config.objectId # handles[h].config.objectId

\* C23: once the disconnect() of onDeleted has completed, no Client has the
\* driver's listeners, and none is created.
C23_NoSessionAfterDeletion ==
  /\ deletion.pc = "done" => Live = {}
  /\ deletion.pc = "done" => \A c \in CallIds : ~ENABLED ConnectProceed(c)
====
